---- MODULE Spec2Model ----
(***************************************************************************)
(* Model of music_generation_service: the in-memory task store             *)
(* mock_beatoven_tasks, the two routes (initiate_music_generation,         *)
(* get_music_generation_status) and the background coroutine               *)
(* generate_music_with_beatoven / watch_beatoven_task_status of main.py.   *)
(*                                                                         *)
(* Everything runs on one asyncio event loop: a coroutine is atomic from   *)
(* one await of a network call or sleep to the next, so each action below  *)
(* is the code executed between two such suspension points.                *)
(***************************************************************************)
EXTENDS Integers, FiniteSets, Sequences, TLC

\* ---------------------------------------------------------------- bounds
\* Number of tasks that are initiated in one run.
MaxTasks == 2

\* main.py:176 sets max_retries = 60; the model runs the same loop with a
\* small ceiling.
max_retries == 2

\* The values uuid4 draws the internal task ids from.
TaskIds == 1..MaxTasks

\* A task_id that get_music_generation_status is asked for and that is no
\* uuid4 value: the route accepts any string.
UnknownId == MaxTasks + 1
QueryIds == TaskIds \cup {UnknownId}

\* ------------------------------------------------------- Python values
\* Values are tagged, so that None, strings and dicts can be told apart.
None == [t |-> "None"]
Str(s) == [t |-> "str", v |-> s]
Dict(f) == [t |-> "dict", v |-> f]
EmptyDict == Dict([k \in {} |-> None])

\* bool(x) for the values that occur.
Truthy(x) ==
    CASE x.t = "None" -> FALSE
      [] x.t = "str" -> x.v # ""
      [] x.t = "dict" -> DOMAIN x.v # {}

\* The result of a call: a value, or a raised exception with its str().
Return(x) == [raised |-> FALSE, value |-> x]
Raise(msg) == [raised |-> TRUE, exc |-> msg]

\* x.get(key, default): AttributeError unless x is a dict.
DictGet(x, key, default) ==
    IF x.t # "dict"
    THEN Raise("'NoneType' object has no attribute 'get'")
    ELSE IF key \in DOMAIN x.v THEN Return(x.v[key]) ELSE Return(default)

\* ------------------------------------------------------------- requests
Moods == {
    "joyful", "calm", "melancholy", "energetic", "relaxing", "gloomy", "serene", "adventurous", "upbeat",
    "contemplative", "exhilarated", "peaceful", "frantic", "optimistic", "pensive", "giddy", "tranquil",
    "reflective", "vibrant", "somber", "eager", "content", "restless", "hopeful", "wistful", "euphoric",
    "composed", "agitated", "blissful", "apprehensive", "inspired", "nostalgic", "curious", "playful",
    "solemn", "determined", "bewildered", "grateful", "weary", "proud", "anxious", "elated", "tender",
    "disturbed", "thoughtful", "excited", "sullen", "reverent", "dreamy", "alert"}

duration_ge == 10
duration_le == 300

\* The validation with gt and lt in place of ge and le.
InitiateMusicGenerationInput_exclusive(mood, duration_seconds) ==
    /\ mood \in Moods
    /\ duration_seconds > duration_ge
    /\ duration_seconds < duration_le

\* Pydantic validation of the request body of initiate_music_generation.
InitiateMusicGenerationInput(mood, duration_seconds) ==
    /\ mood \in Moods
    /\ duration_seconds >= duration_ge
    /\ duration_seconds <= duration_le

\* The requests the model sends to initiate: the two ends of the duration
\* range with moods of the enumeration, and a request outside each limit.
InitiateRequests == {
    <<"calm", 10>>, <<"composed", 300>>,
    <<"angry", 30>>, <<"calm", 9>>, <<"calm", 301>>}

\* ------------------------------------------------- the provider's answers
\* What the HTTP exchange of compose_track can deliver: a transport error,
\* a non-success status (raise_for_status), a timeout, or a JSON body.
ExternalIds == {"ext1", "ext2"}

ComposeOutcomes ==
    {[kind |-> "ClientConnectionError"], [kind |-> "ClientResponseError"],
     [kind |-> "TimeoutError"]}
    \cup {[kind |-> "json", data |-> Dict([task_id |-> Str(e)])] : e \in ExternalIds}
    \cup {[kind |-> "json", data |-> d] :
            d \in {EmptyDict, Dict([task_id |-> None]), Dict([task_id |-> Str("")]), None}}

ComposeConnectMsg == "{'error': 'Could not connect to beatoven.ai: <exc>'}"
ComposeApiMsg == "{'error': 'Beatoven.ai API error <status>: <text>'}"
ComposeRequestMsg == "{'error': 'Failed to make a request to beatoven.ai: <exc>'}"
ComposeNoTaskIdMsg ==
    "{'error': 'Failed to make a request to beatoven.ai: {'error': 'Beatoven.ai did not return a task_id.', 'details': <data>}'}"

\* compose_track: the data of the response, or an Exception whose str() is
\* one of the messages above. The exception raised for a missing task_id is
\* raised inside the try block and wrapped by its last except clause.
compose_track(outcome) ==
    CASE outcome.kind = "ClientConnectionError" -> Raise(ComposeConnectMsg)
      [] outcome.kind = "ClientResponseError" -> Raise(ComposeApiMsg)
      [] outcome.kind = "json" ->
            LET got == DictGet(outcome.data, "task_id", None) IN
            IF got.raised THEN Raise(ComposeRequestMsg)
            ELSE IF ~Truthy(got.value) THEN Raise(ComposeNoTaskIdMsg)
            ELSE Return(outcome.data)
      [] OTHER -> Raise(ComposeRequestMsg)

Urls == {"https://cdn/track-1.mp3", "https://cdn/track-2.mp3"}
ProviderErrors == {"out of credits"}

\* The bodies GET /tasks/{id} answers with.
StatusBodies ==
    {Dict([status |-> Str("composing")]),
     Dict([status |-> Str("queued")]),
     EmptyDict,
     None,
     Dict([status |-> Str("completed")]),
     Dict([status |-> Str("completed"), meta |-> None]),
     Dict([status |-> Str("composed"), meta |-> EmptyDict]),
     Dict([status |-> Str("completed"), meta |-> Dict([track_url |-> Str("")])]),
     Dict([status |-> Str("failed")]),
     Dict([status |-> Str("failed"), error_message |-> None]),
     Dict([status |-> Str("failed"), error_message |-> Str("")])}
    \cup {Dict([status |-> Str(s), meta |-> Dict([track_url |-> Str(u)])]) :
            s \in {"completed", "composed"}, u \in Urls}
    \cup {Dict([status |-> Str("failed"), error_message |-> Str(m)]) : m \in ProviderErrors}

StatusOutcomes ==
    {[kind |-> "ClientConnectionError"], [kind |-> "ClientResponseError"],
     [kind |-> "TimeoutError"]}
    \cup {[kind |-> "json", data |-> d] : d \in StatusBodies}

StatusConnectMsg == "{'error': 'Could not connect to beatoven.ai for status check: <exc>'}"
StatusApiMsg == "{'error': 'Beatoven.ai status API error <status>: <text>'}"
StatusRequestMsg == "{'error': 'Failed to get track status from beatoven.ai: <exc>'}"

\* get_track_status with a connection failure swallowed: an empty body is
\* returned in its place.
get_track_status_swallows_connection_error(outcome) ==
    CASE outcome.kind = "ClientConnectionError" -> Return(EmptyDict)
      [] outcome.kind = "ClientResponseError" -> Raise(StatusApiMsg)
      [] outcome.kind = "json" -> Return(outcome.data)
      [] OTHER -> Raise(StatusRequestMsg)

\* get_track_status: the body as it came, or an Exception.
get_track_status(outcome) ==
    CASE outcome.kind = "ClientConnectionError" -> Raise(StatusConnectMsg)
      [] outcome.kind = "ClientResponseError" -> Raise(StatusApiMsg)
      [] outcome.kind = "json" -> Return(outcome.data)
      [] OTHER -> Raise(StatusRequestMsg)

\* ------------------------------------------------ one poll of the watcher
NoTrackUrlMsg == "Beatoven.ai reported completed/composed but no track_url found."
TaskFailedMsg == "Beatoven.ai task failed."
TimedOutMsg == "Beatoven.ai generation timed out after multiple retries."

\* What one iteration of the loop of watch_beatoven_task_status decides.
Sleep(write) == [kind |-> "sleep", write_processing |-> write]
Completed(url) == [kind |-> "completed", music_url |-> url]
Failed(err) == [kind |-> "failed", error |-> err]

\* track_status.get("meta", {}).get("track_url")
track_url_of(track_status) ==
    LET meta == DictGet(track_status, "meta", EmptyDict) IN
    IF meta.raised THEN meta ELSE DictGet(meta.value, "track_url", None)

\* track_status.get("error_message", "Beatoven.ai task failed.")
error_message_of(track_status) ==
    DictGet(track_status, "error_message", Str(TaskFailedMsg))

\* The body of the try block and its except clause, given what
\* get_track_status returned or raised.
watch_iteration(res) ==
    IF res.raised THEN Failed(Str(res.exc))
    ELSE
      LET track_status == res.value
          got == DictGet(track_status, "status", None)
      IN
      IF got.raised THEN Failed(Str(got.exc))
      ELSE
        LET current_beatoven_status == got.value IN
        IF current_beatoven_status = Str("composing") THEN Sleep(TRUE)
        ELSE IF current_beatoven_status \in {Str("completed"), Str("composed")} THEN
            LET track_url == track_url_of(track_status) IN
            IF track_url.raised THEN Failed(Str(track_url.exc))
            ELSE IF Truthy(track_url.value) THEN Completed(track_url.value)
            ELSE Failed(Str(NoTrackUrlMsg))
        ELSE IF current_beatoven_status = Str("failed") THEN
            LET error_msg == error_message_of(track_status) IN
            IF error_msg.raised THEN Failed(Str(error_msg.exc))
            ELSE Failed(error_msg.value)
        ELSE Sleep(FALSE)

\* exits_polling with the `return` of the failure branches left out.
exits_polling_on_success_only(decision) == decision.kind = "completed"

\* exits_polling with a `return` in the two sleeping branches as well.
exits_polling_always(decision) == TRUE

\* The branches that end with `return`: every one but the two that sleep.
exits_polling(decision) == decision.kind # "sleep"

\* ------------------------------------------------------------------ state
VARIABLES
    mock_beatoven_tasks,  \* the store: internal task id -> record
    now,                  \* time.time(), a logical clock
    response,             \* the last answer of a route
    returned,             \* the ids initiate has answered with
    initiated,            \* the number of requests initiate has answered 200
    pc,                   \* where the background coroutine of each id waits
    i,                    \* the loop variable of watch_beatoven_task_status
    beatoven_task_id,     \* the argument of watch_beatoven_task_status
    compose_calls,        \* compose_track calls made for each id
    polls,                \* get_track_status calls made for each id
    transient,            \* polls of each id that ended in a sleep
    terminal_writes       \* writes of "completed" or "failed" by each id's coroutine

vars == <<mock_beatoven_tasks, now, response, returned, initiated, pc, i, beatoven_task_id,
          compose_calls, polls, transient, terminal_writes>>
orchestrator == <<pc, i, beatoven_task_id, compose_calls, polls, transient, terminal_writes>>

\* ---------------------------------------------------------- store writes
\* new_record without the error field.
new_record_without_error(mood, duration_seconds, start_time) ==
    [status |-> "processing", mood |-> mood, duration |-> duration_seconds,
     music_url |-> None, start_time |-> start_time, beatoven_task_id |-> None]

new_record(mood, duration_seconds, start_time) ==
    [status |-> "processing", mood |-> mood, duration |-> duration_seconds,
     music_url |-> None, error |-> None, start_time |-> start_time,
     beatoven_task_id |-> None]

\* insert_record as `mock_beatoven_tasks = {internal_task_id: {...}}`: the
\* store is replaced by one that holds the new record only.
insert_record_replaces_store(tasks, internal_task_id, record) ==
    [k \in {internal_task_id} |-> record]

\* mock_beatoven_tasks[internal_task_id] = {...}
insert_record(tasks, internal_task_id, record) ==
    [k \in DOMAIN tasks \cup {internal_task_id} |->
        IF k = internal_task_id THEN record ELSE tasks[k]]

set_processing(tasks, internal_task_id) ==
    [tasks EXCEPT ![internal_task_id].status = "processing"]

\* set_completed with a fixed URL in place of the one the poll returned.
set_completed_fixed_url(tasks, internal_task_id, track_url) ==
    [tasks EXCEPT ![internal_task_id].status = "completed",
                  ![internal_task_id].music_url = Str("https://cdn/track-1.mp3")]

set_completed(tasks, internal_task_id, track_url) ==
    [tasks EXCEPT ![internal_task_id].status = "completed",
                  ![internal_task_id].music_url = track_url]

\* set_failed on a store whose records share one dict: the write shows in
\* every record.
set_failed_shared_record(tasks, internal_task_id, error_msg) ==
    [k \in DOMAIN tasks |->
        [tasks[k] EXCEPT !.status = "failed", !.error = error_msg]]

set_failed(tasks, internal_task_id, error_msg) ==
    [tasks EXCEPT ![internal_task_id].status = "failed",
                  ![internal_task_id].error = error_msg]

\* set_beatoven_task_id with the write of line 243 left out.
set_beatoven_task_id_not_recorded(tasks, internal_task_id, id) == tasks

set_beatoven_task_id(tasks, internal_task_id, id) ==
    [tasks EXCEPT ![internal_task_id].beatoven_task_id = id]

\* The store after the write of one iteration's decision.
apply_decision(tasks, internal_task_id, decision) ==
    CASE decision.kind = "completed" ->
            set_completed(tasks, internal_task_id, decision.music_url)
      [] decision.kind = "failed" ->
            set_failed(tasks, internal_task_id, decision.error)
      [] decision.kind = "sleep" ->
            IF decision.write_processing
            THEN set_processing(tasks, internal_task_id) ELSE tasks

\* ------------------------------------------------------------------- Init
NoResponse == [op |-> "none"]

Init ==
    /\ mock_beatoven_tasks = [k \in {} |-> None]
    /\ now = 0
    /\ response = NoResponse
    /\ returned = {}
    /\ initiated = 0
    /\ pc = [t \in TaskIds |-> "none"]
    /\ i = [t \in TaskIds |-> 0]
    /\ beatoven_task_id = [t \in TaskIds |-> None]
    /\ compose_calls = [t \in TaskIds |-> 0]
    /\ polls = [t \in TaskIds |-> 0]
    /\ transient = [t \in TaskIds |-> 0]
    /\ terminal_writes = [t \in TaskIds |-> 0]

\* ------------------------------------------------------------- the routes
\* POST /initiate_music_generation/: FastAPI answers 422 before the handler
\* runs when the body does not validate; otherwise the handler inserts the
\* record, adds the background task and answers with the new id.
initiate_music_generation_route(mood, duration_seconds) ==
    IF ~InitiateMusicGenerationInput(mood, duration_seconds)
    THEN /\ response' = [op |-> "initiate", code |-> 422]
         /\ UNCHANGED <<mock_beatoven_tasks, now, returned, initiated, orchestrator>>
    ELSE /\ Cardinality(DOMAIN mock_beatoven_tasks) < MaxTasks
         /\ \E internal_task_id \in TaskIds \ DOMAIN mock_beatoven_tasks :
              /\ mock_beatoven_tasks' =
                    insert_record(mock_beatoven_tasks, internal_task_id,
                                  new_record(mood, duration_seconds, now))
              /\ pc' = [pc EXCEPT ![internal_task_id] = "scheduled"]
              /\ response' = [op |-> "initiate", code |-> 200,
                              task_id |-> internal_task_id]
              /\ returned' = returned \cup {internal_task_id}
         /\ initiated' = initiated + 1
         /\ now' = now + 1
         /\ UNCHANGED <<i, beatoven_task_id, compose_calls, polls, transient,
                        terminal_writes>>

\* status_response with a task that is still processing reported as unknown.
status_response_hides_processing(tasks, task_id) ==
    IF task_id \notin DOMAIN tasks \/ tasks[task_id].status = "processing"
    THEN [op |-> "get_status", code |-> 404, task_id |-> task_id]
    ELSE LET task_info == tasks[task_id] IN
         [op |-> "get_status", code |-> 200, task_id |-> task_id,
          status |-> task_info.status, music_url |-> task_info.music_url,
          error |-> task_info.error]

\* What get_music_generation_status_route answers for task_id on a store.
status_response(tasks, task_id) ==
    IF task_id \notin DOMAIN tasks
    THEN [op |-> "get_status", code |-> 404, task_id |-> task_id]
    ELSE LET task_info == tasks[task_id] IN
         [op |-> "get_status", code |-> 200, task_id |-> task_id,
          status |-> task_info.status, music_url |-> task_info.music_url,
          error |-> task_info.error]

\* The route reading the store with setdefault: an unknown id gets a record.
get_music_generation_status_route_setdefault(task_id) ==
    /\ response' = status_response(mock_beatoven_tasks, task_id)
    /\ mock_beatoven_tasks' =
          IF task_id \in DOMAIN mock_beatoven_tasks THEN mock_beatoven_tasks
          ELSE insert_record(mock_beatoven_tasks, task_id, new_record("calm", 10, now))
    /\ UNCHANGED <<now, returned, initiated, orchestrator>>

\* POST /get_music_generation_status/
get_music_generation_status_route(task_id) ==
    /\ response' = status_response(mock_beatoven_tasks, task_id)
    /\ UNCHANGED <<mock_beatoven_tasks, now, returned, initiated, orchestrator>>

\* ------------------------------------------------ the background coroutine
\* The background task starts after the response was sent and runs to its
\* first await, the request of compose_track.
generate_music_with_beatoven(t) ==
    /\ pc[t] = "scheduled"
    /\ pc' = [pc EXCEPT ![t] = "compose"]
    /\ compose_calls' = [compose_calls EXCEPT ![t] = @ + 1]
    /\ UNCHANGED <<mock_beatoven_tasks, now, response, returned, initiated, i, beatoven_task_id,
                   polls, transient, terminal_writes>>

\* compose_returns with the watcher started although compose_track raised.
compose_returns_polls_anyway(t, outcome) ==
    /\ pc[t] = "compose"
    /\ LET compose_res == compose_track(outcome) IN
       /\ mock_beatoven_tasks' =
            IF compose_res.raised
            THEN set_failed(mock_beatoven_tasks, t, Str(compose_res.exc))
            ELSE set_beatoven_task_id(mock_beatoven_tasks, t,
                                      compose_res.value.v["task_id"])
       /\ beatoven_task_id' =
            [beatoven_task_id EXCEPT ![t] =
                IF compose_res.raised THEN @ ELSE compose_res.value.v["task_id"]]
       /\ terminal_writes' =
            [terminal_writes EXCEPT ![t] = IF compose_res.raised THEN @ + 1 ELSE @]
    /\ i' = [i EXCEPT ![t] = 0]
    /\ polls' = [polls EXCEPT ![t] = @ + 1]
    /\ pc' = [pc EXCEPT ![t] = "poll"]
    /\ UNCHANGED <<now, response, returned, initiated, compose_calls, transient>>

\* compose_track returns or raises. On success the id is recorded and
\* watch_beatoven_task_status runs to its first get_track_status; on an
\* exception the except clause of generate_music_with_beatoven writes failed.
compose_returns(t, outcome) ==
    /\ pc[t] = "compose"
    /\ LET compose_res == compose_track(outcome) IN
       IF compose_res.raised
       THEN /\ mock_beatoven_tasks' =
                  set_failed(mock_beatoven_tasks, t, Str(compose_res.exc))
            /\ terminal_writes' = [terminal_writes EXCEPT ![t] = @ + 1]
            /\ pc' = [pc EXCEPT ![t] = "done"]
            /\ UNCHANGED <<i, beatoven_task_id, polls>>
       ELSE /\ mock_beatoven_tasks' =
                  set_beatoven_task_id(mock_beatoven_tasks, t,
                                       compose_res.value.v["task_id"])
            /\ beatoven_task_id' =
                  [beatoven_task_id EXCEPT ![t] = compose_res.value.v["task_id"]]
            /\ i' = [i EXCEPT ![t] = 0]
            /\ polls' = [polls EXCEPT ![t] = @ + 1]
            /\ pc' = [pc EXCEPT ![t] = "poll"]
            /\ UNCHANGED terminal_writes
    /\ UNCHANGED <<now, response, returned, initiated, compose_calls, transient>>

\* get_track_status returns or raises: one iteration of the loop up to its
\* return or its sleep.
poll_returns(t, outcome) ==
    /\ pc[t] = "poll"
    /\ LET decision == watch_iteration(get_track_status(outcome)) IN
       /\ mock_beatoven_tasks' = apply_decision(mock_beatoven_tasks, t, decision)
       /\ terminal_writes' =
            [terminal_writes EXCEPT ![t] = IF decision.kind = "sleep" THEN @ ELSE @ + 1]
       /\ transient' =
            [transient EXCEPT ![t] = IF decision.kind = "sleep" THEN @ + 1 ELSE @]
       /\ pc' = [pc EXCEPT ![t] = IF exits_polling(decision) THEN "done" ELSE "sleep"]
    /\ UNCHANGED <<now, response, returned, initiated, i, beatoven_task_id, compose_calls, polls>>

\* loop_continues for a loop that stops one iteration early.
loop_continues_one_short(n) == n + 2 < max_retries

\* range(max_retries): is there an iteration after iteration i?
loop_continues(n) == n + 1 < max_retries

\* sleep_returns without the write below the loop: after the last iteration
\* the coroutine just ends.
sleep_returns_without_timeout_write(t) ==
    /\ pc[t] = "sleep"
    /\ IF i[t] + 1 < max_retries
       THEN /\ i' = [i EXCEPT ![t] = @ + 1]
            /\ polls' = [polls EXCEPT ![t] = @ + 1]
            /\ pc' = [pc EXCEPT ![t] = "poll"]
       ELSE /\ pc' = [pc EXCEPT ![t] = "done"]
            /\ UNCHANGED <<i, polls>>
    /\ UNCHANGED <<mock_beatoven_tasks, now, response, returned, initiated,
                   beatoven_task_id, compose_calls, transient, terminal_writes>>

\* asyncio.sleep returns: the next iteration's get_track_status, or, after
\* the last iteration, the timeout write below the loop.
sleep_returns(t) ==
    /\ pc[t] = "sleep"
    /\ IF loop_continues(i[t])
       THEN /\ i' = [i EXCEPT ![t] = @ + 1]
            /\ polls' = [polls EXCEPT ![t] = @ + 1]
            /\ pc' = [pc EXCEPT ![t] = "poll"]
            /\ UNCHANGED <<mock_beatoven_tasks, terminal_writes>>
       ELSE /\ mock_beatoven_tasks' =
                  set_failed(mock_beatoven_tasks, t, Str(TimedOutMsg))
            /\ terminal_writes' = [terminal_writes EXCEPT ![t] = @ + 1]
            /\ pc' = [pc EXCEPT ![t] = "done"]
            /\ UNCHANGED <<i, polls>>
    /\ UNCHANGED <<now, response, returned, initiated, beatoven_task_id, compose_calls, transient>>

\* ------------------------------------------------------------------- Next
Initiate == \E r \in InitiateRequests : initiate_music_generation_route(r[1], r[2])
GetStatus == \E task_id \in QueryIds : get_music_generation_status_route(task_id)
ComposeReturns(t) == \E outcome \in ComposeOutcomes : compose_returns(t, outcome)
PollReturns(t) == \E outcome \in StatusOutcomes : poll_returns(t, outcome)
Orchestrator(t) ==
    \/ generate_music_with_beatoven(t)
    \/ ComposeReturns(t)
    \/ PollReturns(t)
    \/ sleep_returns(t)

Next ==
    \/ Initiate
    \/ GetStatus
    \/ \E t \in TaskIds : Orchestrator(t)

Spec == Init /\ [][Next]_vars

\* The event loop runs every coroutine that is ready, and every compose or
\* poll call returns (a result or an error).
FairSpec == Spec /\ \A t \in TaskIds : WF_vars(Orchestrator(t))

\* ------------------------------------------------------- mock_beatoven.py
\* DEFAULT_MOCK_MUSIC_URL, with its query string left out.
DEFAULT_MOCK_MUSIC_URL ==
    " https://composition-lambda.s3-accelerate.amazonaws.com/<key>/full_track.mp3?<query>"
MockedTaskId == "MOCKED_TASK_<uuid4>"

\* The calls of handle_mock_music_generation the model makes: with and
\* without a mock_music_url.
MockMusicUrls == {None, Str("https://cdn/track-1.mp3")}

\* handle_mock_music_generation: the record under internal_task_id is
\* assigned a completed record, whatever the store holds under that id.
\* main.py does not call it; it is a step of MockSpec only.
handle_mock_music_generation(internal_task_id, mood, duration_seconds, mock_music_url) ==
    /\ LET music_url == IF Truthy(mock_music_url) THEN mock_music_url
                        ELSE Str(DEFAULT_MOCK_MUSIC_URL)
       IN mock_beatoven_tasks' =
            insert_record(mock_beatoven_tasks, internal_task_id,
                [status |-> "completed", mood |-> mood, duration |-> duration_seconds,
                 music_url |-> music_url, error |-> None, start_time |-> now,
                 beatoven_task_id |-> Str(MockedTaskId)])
    /\ UNCHANGED <<now, response, returned, initiated, orchestrator>>

\* The calls the model makes are late ones: for an id whose record is
\* already completed or failed.
MockGeneration ==
    \E internal_task_id \in DOMAIN mock_beatoven_tasks :
        /\ mock_beatoven_tasks[internal_task_id].status \in {"completed", "failed"}
        /\ \E mock_music_url \in MockMusicUrls :
              handle_mock_music_generation(internal_task_id, "calm", 10, mock_music_url)

\* The service with handle_mock_music_generation called on its store.
MockNext == Next \/ MockGeneration
MockSpec == Init /\ [][MockNext]_vars

\* ----------------------------------------------------------------- claims
IsNone(x) == x.t = "None"
Created == DOMAIN mock_beatoven_tasks
IsTerminal(record) == record.status \in {"completed", "failed"}

\* C1: terminal states are sinks. In every step, a record that is completed
\* or failed keeps its status, music_url and error, and a task's record is
\* terminal exactly when one terminal write was made for it (never two).
C1_TerminalSink ==
    [][\A t \in Created :
         /\ t \in DOMAIN mock_beatoven_tasks'
         /\ IsTerminal(mock_beatoven_tasks[t]) =>
              /\ mock_beatoven_tasks'[t].status = mock_beatoven_tasks[t].status
              /\ mock_beatoven_tasks'[t].music_url = mock_beatoven_tasks[t].music_url
              /\ mock_beatoven_tasks'[t].error = mock_beatoven_tasks[t].error
         /\ terminal_writes'[t] =
              (IF IsTerminal(mock_beatoven_tasks'[t]) THEN 1 ELSE 0)]_vars

\* C1 witness: both tasks are terminal, one completed and one failed, and a
\* get-status has read one of them after its terminal write.
C1_Witness ==
    /\ \E t \in Created : mock_beatoven_tasks[t].status = "completed"
    /\ \E t \in Created : mock_beatoven_tasks[t].status = "failed"
    /\ \A t \in TaskIds : pc[t] = "done" /\ terminal_writes[t] = 1
    /\ response.op = "get_status" /\ response.code = 200
    /\ response.status \in {"completed", "failed"}

\* C2: a processing record has music_url and error both null; a completed
\* record has a music_url and no error; a failed record has an error and
\* no music_url.
C2_ExactlyOneResult ==
    \A t \in Created :
       LET record == mock_beatoven_tasks[t] IN
       /\ record.status = "processing" =>
            IsNone(record.music_url) /\ IsNone(record.error)
       /\ record.status = "completed" =>
            ~IsNone(record.music_url) /\ IsNone(record.error)
       /\ record.status = "failed" =>
            ~IsNone(record.error) /\ IsNone(record.music_url)

\* C3: under fair scheduling of the background coroutines, every task that
\* was initiated eventually has status completed or failed.
C3_EventuallyTerminal ==
    \A t \in TaskIds :
       (t \in Created) ~> (t \in Created /\ IsTerminal(mock_beatoven_tasks[t]))

\* C3 witness: a task whose every poll was answered with an in-progress or
\* unrecognized status has been failed by the ceiling.
C3_Witness ==
    \E t \in Created :
       /\ mock_beatoven_tasks[t].status = "failed"
       /\ mock_beatoven_tasks[t].error = Str(TimedOutMsg)
       /\ transient[t] = max_retries

\* The compose outcomes that are a failure: a connection failure, a
\* non-success HTTP status, a timeout, or a response without a task_id
\* (no body, no such key, null or empty).
ComposeFails(outcome) ==
    \/ outcome.kind \in {"ClientConnectionError", "ClientResponseError", "TimeoutError"}
    \/ /\ outcome.kind = "json"
       /\ \/ outcome.data.t # "dict"
          \/ "task_id" \notin DOMAIN outcome.data.v
          \/ outcome.data.v["task_id"].t # "str"
          \/ outcome.data.v["task_id"].v = ""

\* C4: when the compose call fails, the same step makes the task failed
\* with a non-empty error and a null music_url, leaves its external task id
\* null and ends the coroutine with no poll issued; a coroutine that has
\* ended issues no poll afterwards.
C4_ComposeFailure ==
    [][/\ \A t \in TaskIds : \A outcome \in ComposeOutcomes :
            (compose_returns(t, outcome) /\ ComposeFails(outcome)) =>
               /\ mock_beatoven_tasks[t].status = "processing"
               /\ mock_beatoven_tasks'[t].status = "failed"
               /\ mock_beatoven_tasks'[t].error.t = "str"
               /\ mock_beatoven_tasks'[t].error.v # ""
               /\ IsNone(mock_beatoven_tasks'[t].music_url)
               /\ IsNone(mock_beatoven_tasks'[t].beatoven_task_id)
               /\ polls'[t] = 0
               /\ pc'[t] = "done"
       /\ \A t \in TaskIds :
            pc[t] = "done" => pc'[t] = "done" /\ polls'[t] = polls[t]]_vars

\* C4 witness: a task failed by a compose response without a task_id, with
\* no poll issued, and a get-status has read it.
C4_Witness ==
    \E t \in Created :
       /\ mock_beatoven_tasks[t].status = "failed"
       /\ mock_beatoven_tasks[t].error = Str(ComposeNoTaskIdMsg)
       /\ polls[t] = 0 /\ compose_calls[t] = 1 /\ pc[t] = "done"
       /\ response = status_response(mock_beatoven_tasks, t)

\* The status bodies that report completion together with the result URL u.
CompletionWithUrl(u) ==
    {[kind |-> "json",
      data |-> Dict([status |-> Str(s), meta |-> Dict([track_url |-> Str(u)])])] :
        s \in {"completed", "composed"}}

\* C5: a poll that returns "completed" or "composed" with a result URL makes
\* the task completed with exactly that URL as music_url and a null error,
\* and ends the polling, on whichever iteration it arrives.
C5_CompletionWithUrl ==
    [][\A t \in TaskIds : \A u \in Urls : \A outcome \in CompletionWithUrl(u) :
          poll_returns(t, outcome) =>
             /\ mock_beatoven_tasks[t].status = "processing"
             /\ mock_beatoven_tasks'[t].status = "completed"
             /\ mock_beatoven_tasks'[t].music_url = Str(u)
             /\ IsNone(mock_beatoven_tasks'[t].error)
             /\ pc'[t] = "done"
             /\ polls'[t] = polls[t]]_vars

\* C5 witness: a task completed by the last poll of the ceiling, with the
\* second URL.
C5_Witness ==
    \E t \in Created :
       /\ mock_beatoven_tasks[t].status = "completed"
       /\ mock_beatoven_tasks[t].music_url = Str("https://cdn/track-2.mp3")
       /\ polls[t] = max_retries
       /\ pc[t] = "done"

\* C6: a finished task carries the timeout diagnostic exactly when
\* max_retries polls were issued for it and each of them ended in a sleep
\* (in-progress or unrecognized status); no task is ever polled more than
\* max_retries times.
C6_TimeoutExactlyAtCeiling ==
    \A t \in TaskIds :
       /\ polls[t] <= max_retries
       /\ (t \in Created /\ mock_beatoven_tasks[t].status = "failed"
              /\ mock_beatoven_tasks[t].error = Str(TimedOutMsg))
          <=> (pc[t] = "done" /\ polls[t] = max_retries /\ transient[t] = max_retries)

\* C6 witness: one task timed out after max_retries transient polls while
\* another failed earlier for a different reason.
C6_Witness ==
    \E t, u \in Created :
       /\ mock_beatoven_tasks[t].error = Str(TimedOutMsg)
       /\ polls[t] = max_retries /\ transient[t] = max_retries
       /\ mock_beatoven_tasks[u].status = "failed"
       /\ mock_beatoven_tasks[u].error # Str(TimedOutMsg)
       /\ polls[u] = 1 /\ transient[u] = 0

\* C7: in every state, get-status answers 404 for every id initiate has not
\* returned and 200 for every id it has returned, whatever the task's status.
C7_NotFoundIffNeverReturned ==
    \A task_id \in QueryIds :
       status_response(mock_beatoven_tasks, task_id).code =
          (IF task_id \in returned THEN 200 ELSE 404)

\* C7 witness: get-status has just answered 404 for an id never returned
\* while a returned task is still processing and answers 200.
C7_Witness ==
    /\ response.op = "get_status" /\ response.code = 404
    /\ response.task_id \notin returned
    /\ \E t \in returned :
          /\ mock_beatoven_tasks[t].status = "processing"
          /\ status_response(mock_beatoven_tasks, t).code = 200

\* The fields of a task record.
RecordFields ==
    {"status", "mood", "duration", "music_url", "error", "start_time",
     "beatoven_task_id"}

\* C8: the step in which initiate answers a valid request with an id leaves
\* a record under that id with status processing and music_url, error and
\* external task id null, and its coroutine not yet started; in every state
\* every returned id has a record with all its fields, and a coroutine that
\* has started has its record.
C8_RecordBeforeOrchestrator ==
    [][/\ \A r \in InitiateRequests :
            (initiate_music_generation_route(r[1], r[2])
                /\ r[1] \in Moods /\ r[2] \in 10..300) =>
               /\ response'.code = 200
               /\ response'.task_id \notin Created
               /\ response'.task_id \in DOMAIN mock_beatoven_tasks'
               /\ LET record == mock_beatoven_tasks'[response'.task_id] IN
                  /\ DOMAIN record = RecordFields
                  /\ record.status = "processing"
                  /\ record.mood = r[1] /\ record.duration = r[2]
                  /\ IsNone(record.music_url) /\ IsNone(record.error)
                  /\ IsNone(record.beatoven_task_id)
               /\ pc'[response'.task_id] = "scheduled"
               /\ compose_calls'[response'.task_id] = 0
       /\ \A t \in TaskIds :
            (t \in returned' \/ pc'[t] # "none") =>
               /\ t \in DOMAIN mock_beatoven_tasks'
               /\ DOMAIN mock_beatoven_tasks'[t] = RecordFields]_vars

\* C8 witness: initiate has just answered with an id whose coroutine has not
\* started, while an earlier task's coroutine is polling.
C8_Witness ==
    /\ response.op = "initiate" /\ response.code = 200
    /\ pc[response.task_id] = "scheduled"
    /\ mock_beatoven_tasks[response.task_id].status = "processing"
    /\ \E t \in Created : pc[t] = "poll"

\* C9: initiate with a mood outside the enumeration or a duration outside
\* 10..300 answers 422 and changes neither the store nor any coroutine;
\* with a mood of the enumeration and a duration in 10..300 it answers 200
\* and adds one record, and it is enabled for every such request while the
\* run may still create tasks.
C9_Validation ==
    /\ [][\A r \in InitiateRequests :
            initiate_music_generation_route(r[1], r[2]) =>
               IF r[1] \in Moods /\ r[2] \in 10..300
               THEN /\ response'.op = "initiate" /\ response'.code = 200
                    /\ Cardinality(DOMAIN mock_beatoven_tasks') = Cardinality(Created) + 1
               ELSE /\ response'.op = "initiate" /\ response'.code = 422
                    /\ UNCHANGED <<mock_beatoven_tasks, returned, orchestrator>>]_vars
    /\ [](Cardinality(Created) < MaxTasks =>
            \A r \in InitiateRequests :
               (r[1] \in Moods /\ r[2] \in 10..300) =>
                  ENABLED (initiate_music_generation_route(r[1], r[2])
                              /\ response'.code = 200))

\* C9 witness: a request was just rejected while the store holds a task
\* created with duration 10 and one created with duration 300.
C9_Witness ==
    /\ response.op = "initiate" /\ response.code = 422
    /\ \E t \in Created : mock_beatoven_tasks[t].duration = 10
    /\ \E t \in Created : mock_beatoven_tasks[t].duration = 300

\* C10: a step of the coroutine of task a leaves the record of every other
\* task, and every other coroutine, as they were, and adds or removes no
\* record.
C10_Isolation ==
    [][\A a \in TaskIds :
          Orchestrator(a) =>
             /\ DOMAIN mock_beatoven_tasks' = Created
             /\ \A b \in TaskIds \ {a} :
                  /\ b \in Created => mock_beatoven_tasks'[b] = mock_beatoven_tasks[b]
                  /\ pc'[b] = pc[b] /\ i'[b] = i[b]
                  /\ beatoven_task_id'[b] = beatoven_task_id[b]
                  /\ polls'[b] = polls[b] /\ compose_calls'[b] = compose_calls[b]
                  /\ transient'[b] = transient[b]
                  /\ terminal_writes'[b] = terminal_writes[b]]_vars

\* C10 witness: two tasks ran concurrently and ended differently, one
\* completed and one failed by the timeout.
C10_Witness ==
    \E a, b \in Created :
       /\ mock_beatoven_tasks[a].status = "completed"
       /\ IsNone(mock_beatoven_tasks[a].error)
       /\ mock_beatoven_tasks[b].status = "failed"
       /\ mock_beatoven_tasks[b].error = Str(TimedOutMsg)
       /\ IsNone(mock_beatoven_tasks[b].music_url)
       /\ polls[a] = max_retries /\ polls[b] = max_retries

\* C11: for every task that exists, get-status is enabled and answers 200,
\* and its answer is never completed with a null music_url, never failed
\* with a null error, and never processing with a music_url or an error.
C11_StatusNeverTorn ==
    \A t \in Created :
       LET answer == status_response(mock_beatoven_tasks, t) IN
       /\ ENABLED get_music_generation_status_route(t)
       /\ answer.code = 200
       /\ answer.status = "completed" => ~IsNone(answer.music_url)
       /\ answer.status = "failed" => ~IsNone(answer.error)
       /\ answer.status = "processing" =>
            IsNone(answer.music_url) /\ IsNone(answer.error)

\* C12: a get-status step, answering 200 or 404, leaves the store, the
\* clock, the ids returned and every coroutine as they were.
C12_PureRead ==
    [][\A task_id \in QueryIds :
          get_music_generation_status_route(task_id) =>
             /\ response'.op = "get_status"
             /\ response'.code \in {200, 404}
             /\ mock_beatoven_tasks' = mock_beatoven_tasks
             /\ UNCHANGED <<now, returned, initiated, orchestrator>>]_vars

\* C12 witness: get-status has just read a task whose coroutine sleeps
\* between two polls, while an id without a record exists to be asked for.
C12_Witness ==
    /\ response.op = "get_status" /\ response.code = 200
    /\ response.status = "processing"
    /\ pc[response.task_id] = "sleep"
    /\ QueryIds \ Created # {}
    /\ status_response(mock_beatoven_tasks, UnknownId).code = 404

\* C13: the external task id of a record is null until the compose call
\* succeeds, is then the id the provider returned, and never changes once
\* set; one compose call at most is made per task, and a poll is only
\* issued with the recorded id, after it was recorded.
C13_ExternalIdWrittenOnce ==
    [][\A t \in TaskIds :
         /\ (t \in Created /\ ~IsNone(mock_beatoven_tasks[t].beatoven_task_id)) =>
               mock_beatoven_tasks'[t].beatoven_task_id =
                  mock_beatoven_tasks[t].beatoven_task_id
         /\ \A e \in ExternalIds :
               compose_returns(t, [kind |-> "json", data |-> Dict([task_id |-> Str(e)])]) =>
                  /\ IsNone(mock_beatoven_tasks[t].beatoven_task_id)
                  /\ mock_beatoven_tasks'[t].beatoven_task_id = Str(e)
         /\ compose_calls'[t] <= 1
         /\ (t \in DOMAIN mock_beatoven_tasks' /\ pc'[t] \in {"scheduled", "compose"}) =>
               IsNone(mock_beatoven_tasks'[t].beatoven_task_id)
         /\ polls'[t] > polls[t] =>
               /\ compose_calls'[t] = 1
               /\ ~IsNone(mock_beatoven_tasks'[t].beatoven_task_id)
               /\ beatoven_task_id'[t] = mock_beatoven_tasks'[t].beatoven_task_id]_vars

\* C13 witness: a task polled up to the ceiling with the second external id
\* recorded, after one compose call.
C13_Witness ==
    \E t \in Created :
       /\ mock_beatoven_tasks[t].beatoven_task_id = Str("ext2")
       /\ beatoven_task_id[t] = Str("ext2")
       /\ compose_calls[t] = 1
       /\ polls[t] = max_retries

\* C14: the store holds as many records as initiate has answered 200; a
\* step never removes a record nor changes the mood, duration or creation
\* time of one; a successful initiate adds one record under an id the store
\* did not hold and leaves every other record as it was.
C14_StoreOnlyGrows ==
    /\ [](Cardinality(Created) = initiated)
    /\ [][/\ Created \subseteq DOMAIN mock_beatoven_tasks'
          /\ \A t \in Created :
               /\ mock_beatoven_tasks'[t].mood = mock_beatoven_tasks[t].mood
               /\ mock_beatoven_tasks'[t].duration = mock_beatoven_tasks[t].duration
               /\ mock_beatoven_tasks'[t].start_time = mock_beatoven_tasks[t].start_time
          /\ \A r \in InitiateRequests :
               (initiate_music_generation_route(r[1], r[2]) /\ response'.code = 200) =>
                  /\ response'.task_id \notin Created
                  /\ DOMAIN mock_beatoven_tasks' = Created \cup {response'.task_id}
                  /\ initiated' = initiated + 1
                  /\ \A t \in Created : mock_beatoven_tasks'[t] = mock_beatoven_tasks[t]]_vars

\* C14 witness: two equal requests have produced two records under two ids,
\* created at different times.
C14_Witness ==
    \E t, u \in Created :
       /\ t # u
       /\ mock_beatoven_tasks[t].mood = mock_beatoven_tasks[u].mood
       /\ mock_beatoven_tasks[t].duration = mock_beatoven_tasks[u].duration
       /\ mock_beatoven_tasks[t].start_time # mock_beatoven_tasks[u].start_time
       /\ initiated = 2

\* C15: a write to the store for an id whose record is completed or failed
\* leaves that record as it was, whichever writer makes it, the coroutine
\* of main.py or handle_mock_music_generation.
C15_TerminalWritesAreNoOps ==
    [][\A t \in Created :
          IsTerminal(mock_beatoven_tasks[t]) =>
             mock_beatoven_tasks'[t] = mock_beatoven_tasks[t]]_vars

\* The status outcomes that report completion without a result URL: no
\* meta, meta null, meta without track_url, an empty track_url.
CompletionWithoutUrl ==
    {[kind |-> "json", data |-> d] :
        d \in {Dict([status |-> Str("completed")]),
               Dict([status |-> Str("completed"), meta |-> None]),
               Dict([status |-> Str("composed"), meta |-> EmptyDict]),
               Dict([status |-> Str("completed"), meta |-> Dict([track_url |-> Str("")])])}}

\* C16: a poll that reports completion without a result URL makes the task
\* failed with the completion-without-deliverable diagnostic as its error
\* and a null music_url, and ends the polling.
C16_CompletionWithoutUrl ==
    [][\A t \in TaskIds : \A outcome \in CompletionWithoutUrl :
          poll_returns(t, outcome) =>
             /\ mock_beatoven_tasks'[t].status = "failed"
             /\ mock_beatoven_tasks'[t].error = Str(NoTrackUrlMsg)
             /\ IsNone(mock_beatoven_tasks'[t].music_url)
             /\ pc'[t] = "done"]_vars

\* The error a failure response asks for: its error_message when it gives
\* one, the generic message when the key is absent or null.
ExpectedFailureError(data) ==
    IF "error_message" \in DOMAIN data.v /\ data.v["error_message"].t = "str"
    THEN data.v["error_message"]
    ELSE Str(TaskFailedMsg)

\* The status bodies that report the failure status.
FailureBodies ==
    {Dict([status |-> Str("failed")]),
     Dict([status |-> Str("failed"), error_message |-> None]),
     Dict([status |-> Str("failed"), error_message |-> Str("")])}
    \cup {Dict([status |-> Str("failed"), error_message |-> Str(m)]) : m \in ProviderErrors}

\* C17: a poll that reports the failure status makes the task failed and
\* ends the polling, with the provider's error message as error when one is
\* given and the generic message when none is (absent or null); the error
\* is non-null and music_url null.
C17_FailureMessage ==
    [][\A t \in TaskIds : \A d \in FailureBodies :
          poll_returns(t, [kind |-> "json", data |-> d]) =>
             /\ mock_beatoven_tasks'[t].status = "failed"
             /\ ~IsNone(mock_beatoven_tasks'[t].error)
             /\ mock_beatoven_tasks'[t].error = ExpectedFailureError(d)
             /\ IsNone(mock_beatoven_tasks'[t].music_url)
             /\ pc'[t] = "done"]_vars

\* The status outcomes that are transient: the in-progress status, an
\* unrecognized status, a body without a status.
TransientOutcomes ==
    {[kind |-> "json", data |-> d] :
        d \in {Dict([status |-> Str("composing")]), Dict([status |-> Str("queued")]),
               EmptyDict}}

\* C18: a poll with an in-progress or unrecognized status leaves the record
\* as it was (status processing), issues no poll itself and sends the
\* coroutine to sleep; when the sleep ends, the next iteration's poll is
\* issued, one iteration further, unless this was the last iteration.
C18_TransientPoll ==
    [][\A t \in TaskIds :
         /\ \A outcome \in TransientOutcomes :
               poll_returns(t, outcome) =>
                  /\ mock_beatoven_tasks[t].status = "processing"
                  /\ mock_beatoven_tasks'[t] = mock_beatoven_tasks[t]
                  /\ pc'[t] = "sleep"
                  /\ i'[t] = i[t] /\ polls'[t] = polls[t]
                  /\ transient'[t] = transient[t] + 1
         /\ sleep_returns(t) =>
               IF i[t] + 1 < max_retries
               THEN /\ pc'[t] = "poll"
                    /\ i'[t] = i[t] + 1 /\ polls'[t] = polls[t] + 1
                    /\ mock_beatoven_tasks'[t] = mock_beatoven_tasks[t]
               ELSE /\ pc'[t] = "done" /\ polls'[t] = polls[t]]_vars

\* C18 witness: after a transient first poll the second poll is in flight
\* and the record is still processing with its external id.
C18_Witness ==
    \E t \in Created :
       /\ pc[t] = "poll" /\ i[t] = 1 /\ polls[t] = 2 /\ transient[t] = 1
       /\ mock_beatoven_tasks[t].status = "processing"
       /\ IsNone(mock_beatoven_tasks[t].music_url)
       /\ IsNone(mock_beatoven_tasks[t].error)
       /\ ~IsNone(mock_beatoven_tasks[t].beatoven_task_id)

\* The str() of the exception get_track_status raises for each way the
\* call can fail.
PollErrorText(outcome) ==
    CASE outcome.kind = "ClientConnectionError" -> StatusConnectMsg
      [] outcome.kind = "ClientResponseError" -> StatusApiMsg
      [] outcome.kind = "TimeoutError" -> StatusRequestMsg

PollErrors ==
    {[kind |-> "ClientConnectionError"], [kind |-> "ClientResponseError"],
     [kind |-> "TimeoutError"]}

\* C19: a poll call that errors makes the task failed in that step, with
\* that error as its error and a null music_url, and ends its coroutine
\* with no further poll; the other tasks' records and coroutines and the
\* routes' last answer stay as they were, and a coroutine that has ended
\* with a failed record never polls again.
C19_PollError ==
    [][/\ \A t \in TaskIds : \A outcome \in PollErrors :
            poll_returns(t, outcome) =>
               /\ mock_beatoven_tasks'[t].status = "failed"
               /\ mock_beatoven_tasks'[t].error = Str(PollErrorText(outcome))
               /\ IsNone(mock_beatoven_tasks'[t].music_url)
               /\ pc'[t] = "done"
               /\ polls'[t] = polls[t]
               /\ response' = response
               /\ \A u \in TaskIds \ {t} :
                    /\ pc'[u] = pc[u] /\ polls'[u] = polls[u]
                    /\ u \in Created => mock_beatoven_tasks'[u] = mock_beatoven_tasks[u]
       /\ \A t \in TaskIds :
            (pc[t] = "done" /\ mock_beatoven_tasks[t].status = "failed") =>
               /\ polls'[t] = polls[t]
               /\ mock_beatoven_tasks'[t].status = "failed"]_vars

\* C19 witness: a task failed by a connection failure of its first poll and
\* never polled again, while another task went on to complete.
C19_Witness ==
    \E t, u \in Created :
       /\ mock_beatoven_tasks[t].status = "failed"
       /\ mock_beatoven_tasks[t].error = Str(StatusConnectMsg)
       /\ polls[t] = 1 /\ pc[t] = "done"
       /\ mock_beatoven_tasks[u].status = "completed"
       /\ polls[u] = max_retries

====
